---------------------------- MODULE Spec2Model ----------------------------
(***************************************************************************)
(* The purchase harness of sell-single-hot-product-demo: main() seeds the  *)
(* products table, launches `concurrency` goroutines that each make        *)
(* `batchSize` purchase attempts (SELECT ... FOR UPDATE, conditional       *)
(* UPDATE, COMMIT) and, after wg.Wait(), compares SUM(count) with the      *)
(* closed-form expectation.                                                *)
(*                                                                         *)
(* The store (MySQL behind database/sql) is modelled by what the program   *)
(* asks of it: a table of rows id -> count, open transactions, exclusive   *)
(* row locks held until the transaction ends, uncommitted writes that      *)
(* become visible at COMMIT and vanish at ROLLBACK.  Every store call can  *)
(* return an error.                                                        *)
(*                                                                         *)
(* The two source files are the same program; main.go fixes numProducts at *)
(* 10 where the other reads it from the -products flag.  The model follows *)
(* the flag version, of which main.go is the case numProducts = 10.        *)
(***************************************************************************)
EXTENDS Integers, Sequences, FiniteSets

(***************************************************************************)
(* Bounds of the model.  The flags -concurrency, -batchsize and -products  *)
(* and the per-product stock are drawn from these ranges; the stock is     *)
(* scaled down from the program's 10000000 so that a counter can be driven *)
(* to zero within the bounds.  MaxAttempts caps concurrency * batchSize.    *)
(***************************************************************************)
MaxWorkers == 3

MaxBatch == 3

MaxAttempts == 4

MaxProducts == 2

MaxStock == 2

VARIABLES
    concurrency,        \* *concurrency  (flag)
    batchSize,          \* *batchSize    (flag)
    numProducts,        \* *numProducts  (flag; the const 10 in main.go)
    initialStock,       \* const initialStock, scaled down
    forUpdate,          \* the read of line 84 ends in FOR UPDATE
    mainpc,             \* position of main()
    i,                  \* loop variable of main's insert loop and spawn loop
    maxOpenConns,       \* db.SetMaxOpenConns; 0 = unlimited
    tableExists,        \* store: the products table exists
    products,           \* store: committed rows, id -> count
    openTx,             \* store: transactions begun and not yet ended
    locks,              \* store: exclusive row locks, <<tx, id>>
    pending,            \* store: uncommitted "count = count - 1", <<tx, id>>
    wg,                 \* sync.WaitGroup counter
    wpc,                \* position of each worker goroutine
    j,                  \* each worker's loop variable
    productID,          \* each worker's productID (0 outside an attempt)
    tx,                 \* each worker's tx handle (NoTx outside an attempt)
    currentStock,       \* each worker's currentStock
    finalTotalStock,    \* main's finalTotalStock
    expectedTotalStock, \* main's expectedTotalStock
    verdict,            \* which of the two final log lines was printed
    issued,             \* history: loop iterations each worker has entered
    abandoned,          \* history: some attempt ended on an error path
    decHist,            \* history: per row, the stock observed by each
                        \* committed transaction whose read saw stock > 0
    lastObs,            \* history: per row, the stock the latest locked
                        \* read returned (initialStock before the first)
    leftBy              \* history: per row, the stock its latest lock
                        \* holder left (initialStock before the first)

vars == <<concurrency, batchSize, numProducts, initialStock, forUpdate,
          mainpc, i,
          maxOpenConns, tableExists, products, openTx, locks, pending, wg,
          wpc, j, productID, tx, currentStock, finalTotalStock,
          expectedTotalStock, verdict, issued, abandoned, decHist, lastObs,
          leftBy>>

cfgVars == <<concurrency, batchSize, numProducts, initialStock, forUpdate>>

storeVars == <<tableExists, products, openTx, locks, pending>>

workerVars == <<wpc, j, productID, tx, currentStock>>

reportVars == <<finalTotalStock, expectedTotalStock, verdict>>

orderVars == <<lastObs, leftBy>>

histVars == <<issued, abandoned, decHist, orderVars>>

Workers == 1..concurrency

NoTx == <<0, 0>>

\* finalTotalStock / expectedTotalStock before the report is printed: below
\* every value the report can carry.
NoValue == 0 - (MaxAttempts + 1)

(***************************************************************************)
(* Pure helpers                                                            *)
(***************************************************************************)
RECURSIVE SumRows(_, _)
SumRows(f, S) ==
    IF S = {} THEN 0
    ELSE LET x == CHOOSE y \in S : TRUE
         IN  f[x] + SumRows(f, S \ {x})

\* SELECT SUM(count) FROM products
SumCount == SumRows(products, DOMAIN products)

RECURSIVE SumLen(_, _)
SumLen(f, S) ==
    IF S = {} THEN 0
    ELSE LET x == CHOOSE y \in S : TRUE
         IN  Len(f[x]) + SumLen(f, S \ {x})

TotalIssued == SumRows(issued, DOMAIN issued)

TotalDecrements == SumLen(decHist, DOMAIN decHist)

\* totalPurchases := *concurrency * *batchSize
totalPurchases == concurrency * batchSize

\* initialTotalStock := int64(initialStock) * int64(*numProducts)
initialTotalStock == initialStock * numProducts

\* expectedTotalStock := initialTotalStock - int64(totalPurchases)
ExpectedOf == initialTotalStock - totalPurchases

(***************************************************************************)
(* Store primitives                                                        *)
(***************************************************************************)
\* (mutant) one lock for the whole table
RowLockFreeTableWide(t, id) == \A l \in locks : l[1] = t

\* (mutant) a read that takes no lock is never made to wait
RowLockFreeNoLock(t, id) == TRUE

\* The row lock of id can be granted to transaction t: nobody else holds it.
RowLockFree(t, id) == \A l \in locks : l[2] = id => l[1] = t

\* What the end of transaction t (commit, rollback, failed commit) does to
\* the lock table, the write set and the set of open transactions.
EndTx(t) ==
    /\ openTx' = openTx \ {t}
    /\ locks' = {l \in locks : l[1] # t}
    /\ pending' = {u \in pending : u[1] # t}

\* Variant of Committed: the write stores the value the transaction read,
\* less one (UPDATE ... SET count = ?), instead of count - 1.
CommittedAbsolute(t) ==
    [id \in DOMAIN products |->
        IF <<t, id>> \in pending THEN currentStock[t[1]] - 1 ELSE products[id]]

\* Variant of Committed: the transaction's write is lost at commit.
CommittedLosesWrite(t) == products

\* The rows after transaction t's writes are made durable.
Committed(t) ==
    [id \in DOMAIN products |->
        IF <<t, id>> \in pending THEN products[id] - 1 ELSE products[id]]

\* Bookkeeping at the end of transaction t: the rows it held locked are left
\* at the stock they have in `rows`.
Released(t, rows) ==
    leftBy' = [id \in DOMAIN leftBy |->
                  IF <<t, id>> \in locks THEN rows[id] ELSE leftBy[id]]

(***************************************************************************)
(* Initial state: the flags are parsed, nothing has run.  The store may    *)
(* hold a products table left by an earlier run: no row, fewer or more     *)
(* rows than this run will create, at stocks this run can or cannot        *)
(* produce, the table an earlier initialization left among them.           *)
(***************************************************************************)
PriorTables ==
    {[id \in 1..k |-> s] : k \in 0..(MaxProducts + 1), s \in 0..(MaxStock + 1)}
        \cup {<<1, 0, MaxStock + 1>>}

Start ==
    /\ concurrency \in 1..MaxWorkers
    /\ batchSize \in 0..MaxBatch
    /\ concurrency * batchSize <= MaxAttempts
    /\ numProducts \in 1..MaxProducts
    /\ initialStock \in 1..MaxStock
    /\ mainpc = "open"
    /\ i = 0
    /\ maxOpenConns = 0
    /\ tableExists \in BOOLEAN
    /\ products \in PriorTables
    /\ (~tableExists => products = <<>>)
    /\ openTx = {}
    /\ locks = {}
    /\ pending = {}
    /\ wg = 0
    /\ wpc = [w \in Workers |-> "idle"]
    /\ j = [w \in Workers |-> 0]
    /\ productID = [w \in Workers |-> 0]
    /\ tx = [w \in Workers |-> NoTx]
    /\ currentStock = [w \in Workers |-> 0]
    /\ finalTotalStock = NoValue
    /\ expectedTotalStock = NoValue
    /\ verdict = "none"
    /\ issued = [w \in Workers |-> 0]
    /\ abandoned = FALSE
    /\ decHist = [id \in 1..numProducts |-> <<>>]
    /\ lastObs = [id \in 1..numProducts |-> initialStock]
    /\ leftBy = [id \in 1..numProducts |-> initialStock]

\* The program as written: the read of line 84 is SELECT ... FOR UPDATE.
Init ==
    /\ Start
    /\ forUpdate = TRUE

\* The program and its variant in which the read of line 84 is a plain
\* SELECT: the row lock is then first taken by the UPDATE of line 91.
VariantInit ==
    /\ Start
    /\ forUpdate \in BOOLEAN

(***************************************************************************)
(* main(): connection and schema initialisation                            *)
(***************************************************************************)
\* A fatal error: log.Fatal / log.Fatalf ends the process.
Fatal ==
    /\ mainpc' = "fatal"
    /\ UNCHANGED <<cfgVars, i, maxOpenConns, storeVars, wg, workerVars,
                   reportVars, histVars>>

OpenOK ==
    /\ mainpc = "open"
    /\ mainpc' = "drop"
    /\ maxOpenConns' = concurrency
    /\ UNCHANGED <<cfgVars, i, storeVars, wg, workerVars, reportVars, histVars>>

OpenFail ==
    /\ mainpc = "open"
    /\ Fatal

\* (mutant) the table of the earlier run is kept
DropKeepsTable ==
    /\ mainpc = "drop"
    /\ mainpc' = "create"
    /\ UNCHANGED <<cfgVars, i, maxOpenConns, storeVars, wg, workerVars,
                   reportVars, histVars>>

DropOK ==
    /\ mainpc = "drop"
    /\ tableExists' = FALSE
    /\ products' = <<>>
    /\ mainpc' = "create"
    /\ UNCHANGED <<cfgVars, i, maxOpenConns, openTx, locks, pending, wg,
                   workerVars, reportVars, histVars>>

DropFail ==
    /\ mainpc = "drop"
    /\ Fatal

CreateOK ==
    /\ mainpc = "create"
    /\ ~tableExists
    /\ tableExists' = TRUE
    /\ products' = <<>>
    /\ mainpc' = "insert"
    /\ i' = 1
    /\ UNCHANGED <<cfgVars, maxOpenConns, openTx, locks, pending, wg,
                   workerVars, reportVars, histVars>>

CreateFail ==
    /\ mainpc = "create"
    /\ Fatal

InsertOK ==
    /\ mainpc = "insert"
    /\ i <= numProducts
    /\ tableExists
    /\ i \notin DOMAIN products
    /\ products' = [id \in DOMAIN products \cup {i} |->
                        IF id = i THEN initialStock ELSE products[id]]
    /\ i' = i + 1
    /\ UNCHANGED <<cfgVars, mainpc, maxOpenConns, tableExists, openTx, locks,
                   pending, wg, workerVars, reportVars, histVars>>

\* (mutant) a failed insert is logged and the loop goes on
InsertFailContinues ==
    /\ mainpc = "insert"
    /\ i <= numProducts
    /\ i' = i + 1
    /\ UNCHANGED <<cfgVars, mainpc, maxOpenConns, storeVars, wg, workerVars,
                   reportVars, histVars>>

InsertFail ==
    /\ mainpc = "insert"
    /\ i <= numProducts
    /\ Fatal

InsertDone ==
    /\ mainpc = "insert"
    /\ i > numProducts
    /\ mainpc' = "spawn"
    /\ i' = 0
    /\ UNCHANGED <<cfgVars, maxOpenConns, storeVars, wg, workerVars,
                   reportVars, histVars>>

(***************************************************************************)
(* main(): the worker pool                                                 *)
(***************************************************************************)
\* wg.Add(1); go func(workerID int) {...}(i + 1)
Spawn ==
    /\ mainpc = "spawn"
    /\ i < concurrency
    /\ wg' = wg + 1
    /\ wpc' = [wpc EXCEPT ![i + 1] = "loop"]
    /\ i' = i + 1
    /\ UNCHANGED <<cfgVars, mainpc, maxOpenConns, storeVars, j, productID, tx,
                   currentStock, reportVars, histVars>>

SpawnDone ==
    /\ mainpc = "spawn"
    /\ i >= concurrency
    /\ mainpc' = "wait"
    /\ UNCHANGED <<cfgVars, i, maxOpenConns, storeVars, wg, workerVars,
                   reportVars, histVars>>

\* (mutant) main does not wait for the workers
WaitReturnsAtOnce == TRUE

\* wg.Wait() returns once the counter is zero.
WaitReturns == wg = 0

Wait ==
    /\ mainpc = "wait"
    /\ WaitReturns
    /\ mainpc' = "verify"
    /\ UNCHANGED <<cfgVars, i, maxOpenConns, storeVars, wg, workerVars,
                   reportVars, histVars>>

(***************************************************************************)
(* The worker goroutine                                                    *)
(***************************************************************************)
\* (mutant) the stock guard is missing
HasStockAlways(stock) == TRUE

\* (mutant) off-by-one stock guard
HasStockOffByOne(stock) == stock > 1

\* if currentStock > 0
HasStock(stock) == stock > 0

\* (mutant) the loop bound is inclusive
MoreAttemptsInclusive(w) == j[w] <= batchSize

\* for j := 0; j < *batchSize; j++
MoreAttempts(w) == j[w] < batchSize

\* `continue` (or the end of the loop body): the attempt is over, j++.
NextAttempt(w) ==
    /\ wpc' = [wpc EXCEPT ![w] = "loop"]
    /\ j' = [j EXCEPT ![w] = j[w] + 1]
    /\ productID' = [productID EXCEPT ![w] = 0]
    /\ tx' = [tx EXCEPT ![w] = NoTx]
    /\ currentStock' = [currentStock EXCEPT ![w] = 0]

\* productID := rand.Intn(*numProducts) + 1; tx, err := db.Begin()  (err == nil)
BeginOK(w, id) ==
    /\ wpc[w] = "loop"
    /\ MoreAttempts(w)
    /\ maxOpenConns = 0 \/ Cardinality(openTx) < maxOpenConns
    /\ productID' = [productID EXCEPT ![w] = id]
    /\ tx' = [tx EXCEPT ![w] = <<w, j[w] + 1>>]
    /\ openTx' = openTx \cup {<<w, j[w] + 1>>}
    /\ wpc' = [wpc EXCEPT ![w] = "select"]
    /\ issued' = [issued EXCEPT ![w] = issued[w] + 1]
    /\ UNCHANGED <<cfgVars, mainpc, i, maxOpenConns, tableExists, products,
                   locks, pending, wg, j, currentStock, reportVars, abandoned,
                   decHist, orderVars>>

\* db.Begin() fails: continue
BeginFail(w) ==
    /\ wpc[w] = "loop"
    /\ MoreAttempts(w)
    /\ NextAttempt(w)
    /\ issued' = [issued EXCEPT ![w] = issued[w] + 1]
    /\ abandoned' = TRUE
    /\ UNCHANGED <<cfgVars, mainpc, i, maxOpenConns, storeVars, wg,
                   reportVars, decHist, orderVars>>

\* SELECT count FROM products WHERE id = ? FOR UPDATE  (err == nil)
SelectOK(w) ==
    /\ wpc[w] = "select"
    /\ productID[w] \in DOMAIN products
    /\ forUpdate => RowLockFree(tx[w], productID[w])
    /\ locks' = IF forUpdate THEN locks \cup {<<tx[w], productID[w]>>}
                ELSE locks
    /\ currentStock' = [currentStock EXCEPT ![w] = products[productID[w]]]
    /\ wpc' = [wpc EXCEPT ![w] =
                  IF HasStock(products[productID[w]]) THEN "update"
                  ELSE "commit"]
    /\ lastObs' = [lastObs EXCEPT ![productID[w]] = products[productID[w]]]
    /\ UNCHANGED <<cfgVars, mainpc, i, maxOpenConns, tableExists, products,
                   openTx, pending, wg, j, productID, tx, reportVars, issued,
                   abandoned, decHist, leftBy>>

\* (mutant) the error path returns from the goroutine instead of continuing
SelectFailReturns(w) ==
    /\ wpc[w] = "select"
    /\ EndTx(tx[w])
    /\ wpc' = [wpc EXCEPT ![w] = "done"]
    /\ wg' = wg - 1
    /\ abandoned' = TRUE
    /\ UNCHANGED <<cfgVars, mainpc, i, maxOpenConns, tableExists, products,
                   j, productID, tx, currentStock, reportVars, issued, decHist,
                   orderVars>>

\* the locked read fails: tx.Rollback(); continue
SelectFail(w) ==
    /\ wpc[w] = "select"
    /\ EndTx(tx[w])
    /\ NextAttempt(w)
    /\ abandoned' = TRUE
    /\ Released(tx[w], products)
    /\ UNCHANGED <<cfgVars, mainpc, i, maxOpenConns, tableExists, products,
                   wg, reportVars, issued, decHist, lastObs>>

\* UPDATE products SET count = count - 1 WHERE id = ?  (err == nil)
UpdateOK(w) ==
    /\ wpc[w] = "update"
    /\ RowLockFree(tx[w], productID[w])
    /\ locks' = locks \cup {<<tx[w], productID[w]>>}
    /\ pending' = pending \cup {<<tx[w], productID[w]>>}
    /\ wpc' = [wpc EXCEPT ![w] = "commit"]
    /\ UNCHANGED <<cfgVars, mainpc, i, maxOpenConns, tableExists, products,
                   openTx, wg, j, productID, tx, currentStock, reportVars,
                   histVars>>

\* the UPDATE fails: tx.Rollback(); continue
UpdateFail(w) ==
    /\ wpc[w] = "update"
    /\ EndTx(tx[w])
    /\ NextAttempt(w)
    /\ abandoned' = TRUE
    /\ Released(tx[w], products)
    /\ UNCHANGED <<cfgVars, mainpc, i, maxOpenConns, tableExists, products,
                   wg, reportVars, issued, decHist, lastObs>>

\* tx.Commit() succeeds
CommitOK(w) ==
    /\ wpc[w] = "commit"
    /\ products' = Committed(tx[w])
    /\ EndTx(tx[w])
    /\ NextAttempt(w)
    /\ decHist' = IF currentStock[w] > 0
                  THEN [decHist EXCEPT ![productID[w]] =
                            Append(decHist[productID[w]], currentStock[w])]
                  ELSE decHist
    /\ Released(tx[w], Committed(tx[w]))
    /\ UNCHANGED <<cfgVars, mainpc, i, maxOpenConns, tableExists, wg,
                   reportVars, issued, abandoned, lastObs>>

\* (mutant) the failed commit leaves the transaction open on the server
CommitFailLeavesTx(w) ==
    /\ wpc[w] = "commit"
    /\ NextAttempt(w)
    /\ abandoned' = TRUE
    /\ UNCHANGED <<cfgVars, mainpc, i, maxOpenConns, storeVars, wg,
                   reportVars, issued, decHist, orderVars>>

\* tx.Commit() fails: the transaction is over (database/sql marks it done
\* and gives the connection back), nothing of it is durable; continue
CommitFail(w) ==
    /\ wpc[w] = "commit"
    /\ EndTx(tx[w])
    /\ NextAttempt(w)
    /\ abandoned' = TRUE
    /\ Released(tx[w], products)
    /\ UNCHANGED <<cfgVars, mainpc, i, maxOpenConns, tableExists, products,
                   wg, reportVars, issued, decHist, lastObs>>

\* j < *batchSize is false: the goroutine returns, the deferred wg.Done() runs
WorkerDone(w) ==
    /\ wpc[w] = "loop"
    /\ ~MoreAttempts(w)
    /\ wpc' = [wpc EXCEPT ![w] = "done"]
    /\ wg' = wg - 1
    /\ UNCHANGED <<cfgVars, mainpc, i, maxOpenConns, storeVars, j, productID,
                   tx, currentStock, reportVars, histVars>>

(***************************************************************************)
(* main(): verification                                                    *)
(***************************************************************************)
\* (mutant) the comparison accepts any surplus
VerdictAtLeast(actual, expected) ==
    IF actual >= expected THEN "consistent" ELSE "inconsistent"

\* if finalTotalStock == expectedTotalStock { success } else { failed }
VerdictOf(actual, expected) ==
    IF actual = expected THEN "consistent" ELSE "inconsistent"

VerifyOK ==
    /\ mainpc = "verify"
    /\ tableExists
    /\ DOMAIN products # {}
    /\ finalTotalStock' = SumCount
    /\ expectedTotalStock' = ExpectedOf
    /\ verdict' = VerdictOf(SumCount, ExpectedOf)
    /\ mainpc' = "done"
    /\ UNCHANGED <<cfgVars, i, maxOpenConns, storeVars, wg, workerVars,
                   histVars>>

\* the SUM query fails: log.Fatalf
VerifyFail ==
    /\ mainpc = "verify"
    /\ Fatal

MainStep ==
    \/ OpenOK \/ OpenFail
    \/ DropOK \/ DropFail
    \/ CreateOK \/ CreateFail
    \/ InsertOK \/ InsertFail \/ InsertDone
    \/ Spawn \/ SpawnDone
    \/ Wait
    \/ VerifyOK \/ VerifyFail

WorkerStep(w) ==
    \/ \E id \in 1..numProducts : BeginOK(w, id)
    \/ BeginFail(w)
    \/ SelectOK(w) \/ SelectFail(w)
    \/ UpdateOK(w) \/ UpdateFail(w)
    \/ CommitOK(w) \/ CommitFail(w)
    \/ WorkerDone(w)

Next ==
    \/ MainStep
    \/ \E w \in Workers : WorkerStep(w)

Spec == Init /\ [][Next]_vars

\* The steps of worker w that the scheduler and the store are bound to let
\* happen: every store call returns, and the locked read returns once the
\* row is free.  A call may fail at any time (SelectFail included), but a
\* waiting read is not bound to fail: there is no lock-wait timeout.
ReturningStep(w) ==
    /\ w \in Workers
    /\ \/ \E id \in 1..numProducts : BeginOK(w, id)
       \/ BeginFail(w)
       \/ SelectOK(w)
       \/ UpdateOK(w) \/ UpdateFail(w)
       \/ CommitOK(w) \/ CommitFail(w)
       \/ WorkerDone(w)

\* The program under a fair scheduler: main and every goroutine keep running.
VariantSpec == VariantInit /\ [][Next]_vars

LiveSpec ==
    /\ Init
    /\ [][Next]_vars
    /\ WF_vars(MainStep)
    /\ \A w \in 1..MaxWorkers : WF_vars(ReturningStep(w))

(***************************************************************************)
(* Properties                                                              *)
(***************************************************************************)
\* The counters of the run exist: the initializer has reset the table.
Seeded == mainpc \in {"spawn", "wait", "verify", "done"}

LockHolders(id) == {l \in locks : l[2] = id}

PendingOn(id) == {u \in pending : u[2] = id}

NoDuplicates(seq) ==
    \A a, b \in 1..Len(seq) : a # b => seq[a] # seq[b]

FailureStep(w) ==
    BeginFail(w) \/ SelectFail(w) \/ UpdateFail(w) \/ CommitFail(w)

\* C1, state part: once the table has been reset, every counter's stock,
\* committed or as written inside an open transaction, is within
\* [0, initialStock].
StockInRange ==
    mainpc \in {"create", "insert", "spawn", "wait", "verify", "done"} =>
        \A id \in DOMAIN products :
            /\ products[id] <= initialStock
            /\ products[id] - Cardinality(PendingOn(id)) >= 0

\* C1, step part: no step raises the stock of a counter.
StockNeverRises ==
    [][\A id \in (DOMAIN products) \cap (DOMAIN products') :
            products'[id] <= products[id]]_vars

\* C1: in every reachable state every counter's stock is within
\* [0, initialStock], and no step raises a counter's stock above its previous
\* value.
C1_StockBounded == []StockInRange /\ StockNeverRises

\* C1 witness: a run has ended in which a counter was sold down to zero and a
\* later attempt on it committed without decrementing.
C1_Witness ==
    /\ mainpc = "done"
    /\ ~abandoned
    /\ TotalDecrements < totalPurchases
    /\ \E id \in DOMAIN products : products[id] = 0 /\ Len(decHist[id]) > 0

\* C3, state part: at most one transaction holds the lock of a counter, a
\* lock is held only by an open transaction, and every uncommitted decrement
\* belongs to the transaction holding that counter's lock.
LockExclusive ==
    /\ \A id \in 1..numProducts : Cardinality(LockHolders(id)) <= 1
    /\ \A l \in locks : l[1] \in openTx
    /\ pending \subseteq locks

\* C3, step part: as long as a transaction keeps the lock of a counter, the
\* counter's committed stock does not change and nobody else acquires it.
LockedRowUntouched ==
    [][\A l \in locks \cap locks' :
            /\ products'[l[2]] = products[l[2]]
            /\ LockHolders(l[2])' = {l}]_vars

\* C3: mutual exclusion per counter: from a successful read-for-update until
\* commit or rollback no other transaction locks or writes the counter, at
\* most one transaction holds a counter's lock, and the decrement is made by
\* the lock holder.
C3_MutualExclusion == []LockExclusive /\ LockedRowUntouched

\* C3 witness: one worker holds the lock of a counter with its decrement
\* written while another worker's read-for-update of the same counter waits.
C3_Witness ==
    \E w1, w2 \in Workers :
        /\ w1 # w2
        /\ <<tx[w1], productID[w1]>> \in pending
        /\ <<tx[w1], productID[w1]>> \in locks
        /\ wpc[w2] = "select"
        /\ productID[w2] = productID[w1]

\* C4: no lost update, no oversell: each counter's stock is initialStock
\* minus the number of committed transactions on it whose locked read saw
\* stock > 0, and no two of those transactions decremented on the same
\* observed value.
C4_NoLostUpdate ==
    Seeded =>
        \A id \in 1..numProducts :
            /\ products[id] = initialStock - Len(decHist[id])
            /\ NoDuplicates(decHist[id])

\* C4 witness: a counter carries two committed decrements while a further
\* attempt on it is in flight.
C4_Witness ==
    \E id \in 1..numProducts :
        /\ Len(decHist[id]) >= 2
        /\ \E w \in Workers : wpc[w] = "select" /\ productID[w] = id

\* C2 as stated, over all runs, those with failing steps included: a single
\* failed Begin already leaves the aggregate above the expectation.
C2_AsStatedAnyRun ==
    (mainpc = "done" /\ concurrency * batchSize <= numProducts * initialStock) =>
        /\ finalTotalStock = initialStock * numProducts - concurrency * batchSize
        /\ verdict = "consistent"

C5_FailureRollsBack ==
    [][\A w \in Workers :
            FailureStep(w) =>
                /\ products' = products
                /\ \A l \in locks' : l[1] # <<w, issued'[w]>>
                /\ \A u \in pending' : u[1] # <<w, issued'[w]>>
                /\ <<w, issued'[w]>> \notin openTx'
                /\ decHist' = decHist
                /\ j'[w] = j[w] + 1
                /\ issued'[w] = j'[w]]_vars

\* C5 witness: the first attempt of the run has failed: its worker is back
\* at the top of its loop, no transaction or lock is left and every counter
\* still holds initialStock.
C5_Witness ==
    \E w \in Workers :
        /\ abandoned
        /\ wpc[w] = "loop"
        /\ j[w] = 1
        /\ TotalIssued = 1
        /\ TotalDecrements = 0
        /\ locks = {}
        /\ openTx = {}
        /\ \A id \in DOMAIN products : products[id] = initialStock

\* C6, state part: a worker never issues more than batchSize attempts, has
\* issued exactly batchSize when it finishes, and the run has issued
\* concurrency * batchSize attempts when the barrier is passed.
AttemptsExact ==
    /\ \A w \in Workers :
        /\ issued[w] <= batchSize
        /\ wpc[w] = "done" => issued[w] = batchSize /\ j[w] = batchSize
    /\ mainpc \in {"verify", "done"} => TotalIssued = concurrency * batchSize

\* C6, step part: a failed step sends its worker to its next loop iteration
\* and touches neither main, nor the WaitGroup, nor any other worker.
FailureIsLocal ==
    [][\A w \in Workers :
            FailureStep(w) =>
                /\ wpc'[w] = "loop"
                /\ j'[w] = j[w] + 1
                /\ mainpc' = mainpc
                /\ wg' = wg
                /\ \A v \in Workers \ {w} :
                    /\ wpc'[v] = wpc[v]
                    /\ j'[v] = j[v]
                    /\ tx'[v] = tx[v]]_vars

\* C6: a step failure aborts only its own attempt: the worker goes on to its
\* next attempt without retry, every worker issues exactly batchSize attempts
\* before it finishes, and a failure stops no other worker and not main.
C6_FailureAbortsOnlyAttempt == []AttemptsExact /\ FailureIsLocal

\* C6 witness: the run was verified although attempts failed, every worker
\* having made all of its attempts.
C6_Witness ==
    /\ mainpc = "done"
    /\ abandoned
    /\ concurrency >= 2
    /\ batchSize >= 2
    /\ \A w \in Workers : issued[w] = batchSize

\* C7: barrier: in no state has main passed wg.Wait() (or read the
\* aggregate) while a worker still has an attempt outstanding or in flight.
C7_Barrier ==
    (mainpc \in {"verify", "done"} \/ verdict # "none"
        \/ finalTotalStock # NoValue) =>
        /\ \A w \in Workers : wpc[w] = "done" /\ j[w] = batchSize
        /\ wg = 0
        /\ openTx = {}

\* C7 witness: the aggregate has been read in a run of several workers with
\* attempts to make.
C7_Witness ==
    /\ mainpc = "done"
    /\ concurrency >= 2
    /\ batchSize >= 1
    /\ finalTotalStock # NoValue

\* C8, state part: until the first attempt is issued the table holds exactly
\* the rows 1..numProducts, each at initialStock; a worker is only ever
\* started after the initializer has finished; a fatal error leaves the
\* process with nothing more to do.
InitBeforeWork ==
    /\ (Seeded /\ TotalIssued = 0) =>
            /\ tableExists
            /\ products = [id \in 1..numProducts |-> initialStock]
    /\ (\E w \in Workers : wpc[w] # "idle") =>
            mainpc \in {"spawn", "wait", "verify", "done", "fatal"}
    /\ mainpc = "fatal" =>
            /\ ~ENABLED Next
            /\ \/ \A w \in Workers : wpc[w] = "idle"
               \/ \A w \in Workers : wpc[w] = "done"

\* C8, step part: a failed initialization step ends the run at once, with no
\* worker started.
InitFailureAborts ==
    [][(OpenFail \/ DropFail \/ CreateFail \/ InsertFail) =>
            /\ mainpc' = "fatal"
            /\ \A w \in Workers : wpc'[w] = "idle"]_vars

\* C8: initialization precedes work: when the first worker begins its first
\* attempt exactly numProducts counters exist, ids 1..numProducts, each at
\* initialStock; if an initialization step fails the run aborts and no worker
\* is started.
C8_InitPrecedesWork == []InitBeforeWork /\ InitFailureAborts

\* C8 witness: a worker is about to make the first attempt of a run over two
\* counters.
C8_Witness ==
    /\ mainpc \in {"spawn", "wait"}
    /\ TotalIssued = 0
    /\ numProducts = 2
    /\ batchSize >= 1
    /\ \E w \in Workers : wpc[w] = "loop"

\* C9: the verdict is computed from initialStock * numProducts -
\* concurrency * batchSize: the report carries that value and the aggregate
\* read, the run is reported consistent exactly when the two are equal, and a
\* mismatch ends the run normally with the inconsistent verdict.
C9_Verdict ==
    /\ mainpc = "done" =>
        /\ expectedTotalStock = initialStock * numProducts - concurrency * batchSize
        /\ finalTotalStock = SumCount
        /\ verdict \in {"consistent", "inconsistent"}
        /\ verdict = "consistent" <=> finalTotalStock = expectedTotalStock
    /\ verdict # "none" => mainpc = "done"

\* C9 witness: a mismatch has been reported: the aggregate read exceeds the
\* expectation and the run has ended with the inconsistent verdict.
C9_Witness ==
    /\ mainpc = "done"
    /\ verdict = "inconsistent"
    /\ finalTotalStock > expectedTotalStock

Max(a, b) == IF a >= b THEN a ELSE b

\* C10 as stated, read for the runs in which no step fails: with one
\* counter and more attempts than stock the counter ends at 0, the
\* expectation is max(0, initialStock - attempts) and the run is reported
\* consistent.
C10_ClampedExpectation ==
    (mainpc = "done" /\ numProducts = 1 /\ ~abandoned
        /\ concurrency * batchSize > initialStock) =>
        /\ products[1] = 0
        /\ expectedTotalStock = Max(0, initialStock - concurrency * batchSize)
        /\ verdict = "consistent"

\* C10, the part the code keeps: in such a run the counter ends at exactly 0.
C10_CounterEndsAtZero ==
    (mainpc = "done" /\ numProducts = 1 /\ ~abandoned
        /\ concurrency * batchSize > initialStock) =>
        products[1] = 0

AllWorkersDone == \A w \in Workers : wpc[w] = "done"

\* C11 as stated: every run eventually reaches the state where all workers
\* have finished and a verdict has been emitted.
C11_AsStated == <>(AllWorkersDone /\ verdict # "none")

\* A worker waiting for a row lock waits for the open transaction of another
\* worker, which is past its own locked read and so waits for nobody.
NoLockDeadlock ==
    \A w \in Workers :
        (wpc[w] = "select" /\ ~RowLockFree(tx[w], productID[w])) =>
            \E v \in Workers \ {w} :
                /\ <<tx[v], productID[w]>> \in locks
                /\ tx[v] \in openTx
                /\ wpc[v] \in {"update", "commit"}

\* C11 (amended): under fair scheduling the run always ends; once the
\* workers are launched all of them finish and main passes the barrier,
\* whichever attempt steps fail; the run then ends with a verdict unless the
\* verification read fails, and it ends without one when an initialization
\* step fails; no state is a deadlock and no worker waits for a lock that
\* nobody will release.
C11_RunCompletes ==
    /\ <>(mainpc \in {"done", "fatal"})
    /\ [](Seeded => <>(AllWorkersDone /\ mainpc \in {"done", "fatal"}))
    /\ [](mainpc = "done" => AllWorkersDone /\ verdict # "none")
    /\ []((~ENABLED Next) => mainpc \in {"done", "fatal"})
    /\ []NoLockDeadlock

\* C11 witness: a run of several workers in which attempts failed and
\* attempts succeeded has ended with its verdict.
C11_Witness ==
    /\ mainpc = "done"
    /\ verdict # "none"
    /\ AllWorkersDone
    /\ concurrency >= 2
    /\ abandoned
    /\ TotalDecrements >= 1

\* C12, state part: a transaction whose locked read saw 0 goes straight to
\* its commit and never has a write pending; the counter it locked is at 0.
ZeroReadWritesNothing ==
    \A w \in Workers :
        (wpc[w] \in {"update", "commit"} /\ currentStock[w] = 0) =>
            /\ wpc[w] = "commit"
            /\ products[productID[w]] = 0
            /\ \A u \in pending : u[1] # tx[w]

\* C12, step part: the commit of such a transaction changes no counter, is
\* not counted as a decrement nor as an abandoned attempt, and ends the
\* attempt like any other commit.
ZeroCommitIsNoOp ==
    [][\A w \in Workers :
            (currentStock[w] = 0 /\ CommitOK(w)) =>
                /\ products' = products
                /\ products'[productID[w]] = 0
                /\ decHist' = decHist
                /\ abandoned' = abandoned
                /\ tx[w] \notin openTx'
                /\ j'[w] = j[w] + 1]_vars

\* C12: an attempt whose locked read observes stock 0 performs no write: it
\* commits as a no-op, leaving that counter at 0 and every other counter
\* unchanged, and is not treated as a failure.
C12_ZeroStockNoOp == []ZeroReadWritesNothing /\ ZeroCommitIsNoOp

\* C12 witness: in a run over two counters with no failed step, every
\* attempt issued so far has ended and fewer decrements than attempts were
\* committed: an attempt that read 0 has committed.
C12_Witness ==
    /\ numProducts = 2
    /\ ~abandoned
    /\ openTx = {}
    /\ TotalIssued > TotalDecrements
    /\ \E id \in DOMAIN products : products[id] = 0
    /\ \E id \in DOMAIN products : products[id] = initialStock

AttemptsEnded == SumRows(j, DOMAIN j)

\* C13: single-counter exactness: with one counter, concurrency * batchSize
\* <= initialStock and no step failure, under every interleaving the counter
\* has lost exactly one unit per attempt ended, so the final stock is
\* initialStock - concurrency * batchSize and the verdict is consistent.
C13_SingleCounterExact ==
    (numProducts = 1 /\ ~abandoned /\ concurrency * batchSize <= initialStock) =>
        /\ Seeded => products[1] = initialStock - AttemptsEnded
        /\ mainpc = "done" =>
            /\ products[1] = initialStock - concurrency * batchSize
            /\ finalTotalStock = initialStock - concurrency * batchSize
            /\ verdict = "consistent"

\* C13 witness: two workers with one attempt each have emptied the single
\* counter of stock 2 and the run was reported consistent.
C13_Witness ==
    /\ mainpc = "done"
    /\ numProducts = 1
    /\ ~abandoned
    /\ concurrency = 2
    /\ batchSize = 1
    /\ initialStock = 2
    /\ products[1] = 0
    /\ verdict = "consistent"

\* C15: initializer idempotence: whatever table an earlier run left (none,
\* fewer or more rows, any stock, or the table of an earlier initialization
\* with the same parameters), after DROP nothing of it is left, the rows are
\* built up from the empty table, and the finished initializer leaves
\* exactly the rows 1..numProducts at initialStock, aggregate
\* initialStock * numProducts.
C15_InitializerIdempotent ==
    /\ mainpc = "create" => ~tableExists /\ products = <<>>
    /\ mainpc = "insert" =>
            /\ tableExists
            /\ products = [id \in 1..(i - 1) |-> initialStock]
    /\ (mainpc = "spawn" /\ i = 0) =>
            /\ tableExists
            /\ products = [id \in 1..numProducts |-> initialStock]
            /\ SumCount = initialStock * numProducts

\* C15 witness: the initializer has finished a table of two counters.
C15_Witness ==
    /\ mainpc = "spawn"
    /\ i = 0
    /\ numProducts = 2
    /\ \A w \in Workers : wpc[w] = "idle"
    /\ products = <<initialStock, initialStock>>

\* A reachable starting point of C15: the table found is the one an earlier
\* initialization with the same parameters left.
C15_PriorIsEarlierInit ==
    /\ mainpc = "open"
    /\ tableExists
    /\ products = [id \in 1..numProducts |-> initialStock]

\* Another one: the table found has more rows than this run creates, at a
\* stock this run cannot produce.
C15_PriorIsLarger ==
    /\ mainpc = "open"
    /\ tableExists
    /\ Len(products) > numProducts
    /\ \E id \in DOMAIN products : products[id] > initialStock

\* C16: zero-work boundary: with batchSize = 0, whatever concurrency and
\* numProducts, no attempt is issued, no transaction is opened, no counter
\* is modified, the final aggregate is initialStock * numProducts and the
\* verdict is consistent.
C16_ZeroWork ==
    batchSize = 0 =>
        /\ TotalIssued = 0
        /\ openTx = {}
        /\ ~abandoned
        /\ Seeded => products = [id \in 1..numProducts |-> initialStock]
        /\ mainpc = "done" =>
            /\ finalTotalStock = initialStock * numProducts
            /\ verdict = "consistent"

\* C16 witness: a run of several workers with nothing to do, over two
\* counters, has been reported consistent.
C16_Witness ==
    /\ mainpc = "done"
    /\ batchSize = 0
    /\ concurrency >= 2
    /\ numProducts = 2
    /\ AllWorkersDone
    /\ verdict = "consistent"

OthersHold(w) ==
    \E l \in locks : l[2] = productID[w] /\ l[1] # tx[w]

\* C17: blocking is per counter only: a worker's locked read can return
\* exactly when no other transaction holds the lock of its counter, whatever
\* other counters are locked; a transaction past its read (its UPDATE, its
\* commit) and a worker about to begin wait for nobody.
C17_BlockingPerCounter ==
    \A w \in Workers :
        /\ wpc[w] = "select" => (ENABLED SelectOK(w) <=> ~OthersHold(w))
        /\ wpc[w] = "update" => ENABLED UpdateOK(w)
        /\ wpc[w] = "commit" => ENABLED CommitOK(w)
        /\ (wpc[w] = "loop" /\ MoreAttempts(w)) =>
                \A id \in 1..numProducts : ENABLED BeginOK(w, id)

\* C17 witness: one worker is about to read counter 1, which is free, while
\* another holds the lock of counter 2 with its decrement written, and a
\* third transaction is waiting for counter 2.
C17_Witness ==
    \E w, v, u \in Workers :
        /\ wpc[w] = "select" /\ productID[w] = 1
        /\ LockHolders(1) = {}
        /\ <<tx[v], 2>> \in locks /\ <<tx[v], 2>> \in pending
        /\ wpc[u] = "select" /\ productID[u] = 2 /\ u # v


(***************************************************************************)
(* C18: per-counter total order.                                           *)
(***************************************************************************)

\* The worker's locked read returns in this step.
LockedRead(w) ==
    /\ wpc[w] = "select"
    /\ wpc'[w] \in {"update", "commit"}

\* A locked read returns the stock the previous holder of the row left, and
\* the values read on a row never rise and fall by at most 1 per read.
ReadSeesPredecessor ==
    \A w \in Workers :
        LockedRead(w) =>
            /\ currentStock'[w] = leftBy[productID[w]]
            /\ lastObs'[productID[w]] = currentStock'[w]
            /\ lastObs'[productID[w]] <= lastObs[productID[w]]
            /\ lastObs[productID[w]] - lastObs'[productID[w]] <= 1

\* While a transaction holds a row, the value it read is still the value the
\* previous holder left, and it is the row's only holder.
HolderOrdered ==
    \A w \in Workers : \A id \in 1..numProducts :
        <<tx[w], id>> \in locks /\ wpc[w] \in {"update", "commit"} =>
            /\ currentStock[w] = leftBy[id]
            /\ currentStock[w] = lastObs[id]
            /\ LockHolders(id) = {<<tx[w], id>>}

\* With a single row every transaction that holds a lock holds that row's,
\* so all attempts fall in the one order.
SingleRowSerial ==
    numProducts = 1 => Cardinality(locks) <= 1 /\ \A l \in locks : l[2] = 1

\* C18: the transactions on one counter are totally ordered by lock
\* acquisition: each locked read returns exactly the stock left by the
\* previous lock holder of that counter (the initial stock for the first),
\* the values observed on a counter never rise and consecutive ones differ by
\* at most 1, and with one counter all attempts are in this single order.
C18_PerCounterTotalOrder ==
    /\ [][ReadSeesPredecessor]_vars
    /\ [](Seeded => HolderOrdered /\ SingleRowSerial)

\* Witness of C18: on the single row a transaction holds the lock having read
\* the stock that an earlier committed decrement left.
C18_Witness ==
    /\ numProducts = 1
    /\ Len(decHist[1]) >= 1
    /\ \E w \in Workers :
          /\ <<tx[w], 1>> \in locks
          /\ wpc[w] = "update"
          /\ currentStock[w] = initialStock - 1
          /\ leftBy[1] = initialStock - 1


(***************************************************************************)
(* C19: one transaction per worker, one row lock per transaction.          *)
(***************************************************************************)

TxOf(w) == {t \in openTx : t[1] = w}

InFlight(w) == wpc[w] \in {"select", "update", "commit"}

LocksOf(t) == {l \in locks : l[1] = t}

\* Worker w is blocked in its locked read on a row that worker v's
\* transaction holds.
WaitsFor(w, v) ==
    /\ wpc[w] = "select"
    /\ \E l \in locks : l[2] = productID[w] /\ l[1] # tx[w] /\ l[1][1] = v

OneTxPerWorker ==
    \A w \in Workers :
        /\ Cardinality(TxOf(w)) <= 1
        /\ TxOf(w) = IF InFlight(w) THEN {tx[w]} ELSE {}

EachTxOwned ==
    \A t \in openTx :
        /\ t[1] \in Workers
        /\ tx[t[1]] = t
        /\ \A w \in Workers : tx[w] = t /\ InFlight(w) => w = t[1]

OneLockPerTx ==
    /\ \A l \in locks : l[1] \in openTx
    /\ \A t \in openTx : Cardinality(LocksOf(t)) <= 1

\* A worker that waits holds no lock, so nobody waits for a waiter: the
\* waits-for relation has no path of two edges, hence no cycle.
NoWaitCycle ==
    \A w, v \in Workers :
        WaitsFor(w, v) =>
            /\ v # w
            /\ LocksOf(tx[w]) = {}
            /\ \A x \in Workers : ~WaitsFor(v, x)

\* C19: in every reachable state each worker has at most one in-flight
\* transaction, each transaction belongs to exactly one worker and holds the
\* lock of at most one counter; so at most workerCount transactions are in
\* flight and no cycle of workers waits on each other's locks.
C19_OneTxOneLock ==
    /\ OneTxPerWorker
    /\ EachTxOwned
    /\ OneLockPerTx
    /\ Cardinality(openTx) <= concurrency
    /\ NoWaitCycle

\* Witness of C19: every worker has its transaction in flight, in its second
\* attempt at least for one of them, and one worker waits for another's lock.
C19_Witness ==
    /\ concurrency >= 2
    /\ Cardinality(openTx) = concurrency
    /\ \E t \in openTx : t[2] >= 2
    /\ \E w, v \in Workers : WaitsFor(w, v)


(***************************************************************************)
(* C20: the verdict errs on one side only.                                 *)
(***************************************************************************)

\* Past wg.Wait nothing is in flight: the rows hold committed values only.
QuiescentPastBarrier ==
    mainpc \in {"verify", "done"} =>
        /\ openTx = {}
        /\ locks = {}
        /\ pending = {}
        /\ SumCount = initialTotalStock - TotalDecrements

\* The verified aggregate is never below the expectation, and meets it
\* exactly when each of the issued attempts committed a decrement.
NeverBelowExpectation ==
    mainpc = "done" =>
        /\ finalTotalStock = SumCount
        /\ expectedTotalStock = initialStock * numProducts
                                    - concurrency * batchSize
        /\ finalTotalStock >= expectedTotalStock
        /\ TotalIssued = concurrency * batchSize
        /\ (finalTotalStock = expectedTotalStock)
               <=> (TotalDecrements = TotalIssued)

\* C20: with the locking protocol in place, in every run (with step failures
\* or counters driven to zero as well) the final aggregate is at least
\* initialStock * counterCount - workerCount * opsPerWorker, with equality
\* exactly when every issued attempt committed a decrement; past the barrier
\* no transaction is in flight and no counter lock is held, so the
\* verification read sees committed values only.
C20_OneSidedVerdict ==
    /\ QuiescentPastBarrier
    /\ NeverBelowExpectation

\* Witness of C20: a verified run in which a step failed and an attempt read
\* an empty counter, so the aggregate ended strictly above the expectation.
C20_Witness ==
    /\ mainpc = "done"
    /\ abandoned
    /\ \E id \in 1..numProducts : products[id] = 0
    /\ TotalDecrements >= 1
    /\ TotalDecrements < TotalIssued
    /\ finalTotalStock > expectedTotalStock
    /\ verdict = "inconsistent"

\* A second case of C20: every attempt of a run of several workers committed
\* its decrement and the aggregate met the expectation.
C20_EqualityCase ==
    /\ mainpc = "done"
    /\ concurrency >= 2
    /\ TotalDecrements = concurrency * batchSize
    /\ TotalDecrements >= 2
    /\ finalTotalStock = expectedTotalStock


(***************************************************************************)
(* C14: what the aggregate check sees when the read takes no lock.         *)
(* Checked under VariantSpec, which runs the program with and without the  *)
(* FOR UPDATE of line 84.                                                  *)
(***************************************************************************)

\* Two committed transactions decremented a counter on the same observed
\* stock: the read of one fell between the read and the write of the other.
Raced == \E id \in 1..numProducts : ~NoDuplicates(decHist[id])

NoFailureNoZero == ~abandoned /\ concurrency * batchSize <= initialStock

NoUpdateLost ==
    mainpc = "done" => finalTotalStock = initialTotalStock - TotalDecrements

\* No run without failure and within the stock ends off the expectation,
\* with the lock or without.
ExactEitherWay ==
    (mainpc = "done" /\ NoFailureNoZero) =>
        /\ finalTotalStock = expectedTotalStock
        /\ verdict = "consistent"

\* With the lock no counter goes below zero and no two committed
\* transactions decrement on the same observed stock.
LockKeepsFloor ==
    (forUpdate /\ Seeded) =>
        /\ \A id \in 1..numProducts : products[id] >= 0
        /\ ~Raced

=============================================================================
